---- MODULE Spec2Model ----
(***************************************************************************)
(* State-machine model of the matchmaking core:                            *)
(*   MatchMaker  (src/src/algo_matchmaking/matchmaking/algorithm.py)       *)
(*   Player      (src/src/algo_matchmaking/core/player.py)                 *)
(*   QualityAssessment (src/src/algo_matchmaking/matchmaking/quality.py)   *)
(*                                                                         *)
(* Scores are fixed-point integers.  A sub-score s in [0,1] is the integer *)
(* 100*s; the weights of MatchMaker.default_config are kept in tenths and  *)
(* those of QualityAssessment in hundredths, so that an overall score of   *)
(* the MatchMaker is the integer 1000*score and one of QualityAssessment   *)
(* the integer 10000*score.  All arithmetic is exact.                      *)
(***************************************************************************)
EXTENDS Integers, Sequences, FiniteSets, TLC

VARIABLES
    config,             \* MatchMaker.config
    quality_threshold,  \* MatchMaker.quality_threshold
    player_pool,        \* MatchMaker.player_pool (a list of player ids)
    recent_matches,     \* MatchMaker.recent_matches (a list of matches)
    players,            \* the Player objects: id -> [mmr, preferred_roles]
    env,                \* values of the sub-score calculators algorithm.py calls but does not define
    result,             \* what the last find_match returned: <<>> is None, <<m>> a match
    pre_pool,           \* player_pool as it was when the last find_match was called
    called,             \* whether the last operation was a find_match
    pc,                 \* concurrent find_match: where each thread is
    best,               \* concurrent find_match: each thread's local best_match
    returned,           \* concurrent find_match: what each thread returned
    checked_team,       \* is_valid_team_composition: the argument (preferred_roles per player)
    team_valid,         \* is_valid_team_composition: <<>> or <<the value returned>>
    quality_in,         \* the five sub-scores handed to the overall-quality functions
    qa_overall,         \* QualityAssessment.calculate_overall_quality's value, -1 before the call
    mm_overall,         \* evaluate_match_quality's overall_score, -1 before the call
    mmr,                \* Player.mmr
    role_ratings,       \* Player.role_ratings
    performance_history,\* Player.performance_history
    n_added,            \* number of add_match_performance calls begun so far
    n_updates,          \* number of update_mmr calls so far
    last_update,        \* <<>> or <<[role, change, before]>> of the last update_mmr
    wpc,                \* the thread in add_match_performance: "idle" or "appended"
    rpc,                \* the thread in calculate_tilt: "idle", "checked" or "done"
    seen_len,           \* the length of the history the reader last read
    tilt,               \* calculate_tilt's last value, in tenths
    ex_config,          \* ExceptionalPerformanceAnalyzer.config
    ex_sub,             \* the seven sub-metrics the analyzer's calculators return
    ex_bundle,          \* an ExceptionalMetrics handed to determine_tier_and_adjustment
    ex_duration,        \* match_data['duration'], in seconds
    ex_scores,          \* two overall scores, the first at most the second
    ex_tiers,           \* <<>> or determine_tier_and_adjustment's value for each score
    ex_consistent,      \* <<>> or <<validate_consistency's value>>
    ex_result,          \* <<>> or <<analyze_exceptional_performance's value>>
    sf_in,              \* SafetyChecker.validate_performance's arguments
    sf_history,         \* the performance_history of the player it is given
    sf_susp,            \* <<>> or <<check_suspicious_patterns's value>>
    sf_out,             \* <<>> or <<validate_performance's outcome>>
    adj_in,             \* calculate_mmr_adjustment's inputs
    adj_out,            \* <<>> or <<calculate_mmr_adjustment's value>>
    mc_call,            \* a call of a MetricsCalculator method: its name and arguments
    mc_out,             \* <<>> or <<the outcome of that call>>
    pa_in,              \* analyze_performance's arguments: the player, match_data, context
    pa_out              \* <<>> or <<analyze_performance's outcome>>

mmVars == <<config, quality_threshold, player_pool, recent_matches, players, env,
            result, pre_pool, called>>

thVars == <<pc, best, returned>>

tmVars == <<checked_team, team_valid>>

qaVars == <<quality_in, qa_overall, mm_overall>>

plVars == <<mmr, role_ratings, performance_history, n_added, n_updates, last_update>>

rdVars == <<wpc, rpc, seen_len, tilt>>

exVars == <<ex_config, ex_sub, ex_bundle, ex_duration, ex_scores, ex_tiers, ex_consistent,
            ex_result>>

sfVars == <<sf_in, sf_history, sf_susp, sf_out>>

adjVars == <<adj_in, adj_out>>

pfVars == <<mc_call, mc_out, pa_in, pa_out>>

\* the state of the analysis classes, which the matchmaking and player operations leave alone
anVars == <<exVars, sfVars, adjVars, pfVars>>

vars == <<mmVars, thVars, tmVars, qaVars, plVars, rdVars, anVars>>

----------------------------------------------------------------------------
(* Bounds of the model *)

NPlayers == 4

Players == 1..NPlayers

TeamSizes == {1, 2}

Threads == {1, 2}

MaxTeamLen == 6

MaxUpdates == 3

MaxAdds == 22

MaxHist == 6

\* Player.__init__: initial_mmr: int = 2000
DefaultInitialMmr == 2000

----------------------------------------------------------------------------
(* Helpers *)

Range(s) == {s[i] : i \in 1..Len(s)}

Abs(x) == IF x < 0 THEN -x ELSE x

Max2(a, b) == IF a >= b THEN a ELSE b

RECURSIVE SumSeq(_)
SumSeq(s) == IF s = <<>> THEN 0 ELSE Head(s) + SumSeq(Tail(s))

Roles == {"carry", "mid", "offlane", "soft_support", "hard_support"}

\* 1.0 as a sub-score
One == 100

----------------------------------------------------------------------------
(* MatchMaker: configuration *)

\* default_config(): the importances in tenths, the threshold in thousandths
default_config ==
    [team_size |-> 5, max_mmr_spread |-> 1000, min_quality_threshold |-> 800,
     role_importance |-> 3, skill_importance |-> 3,
     synergy_importance |-> 2, communication_importance |-> 2]

\* MatchMaker(config) with the default threshold and a team size of the model
ConfigChoices ==
    {[default_config EXCEPT !.team_size = ts] : ts \in TeamSizes}

\* MatchMaker(config) with a min_quality_threshold of the caller's, too
Thresholds == {600, 800}

CustomConfigChoices ==
    {[default_config EXCEPT !.team_size = ts, !.min_quality_threshold = t] :
        ts \in TeamSizes, t \in Thresholds}

\* self.quality_threshold = 0.8 in __init__
InitQualityThreshold == 800

----------------------------------------------------------------------------
(* Players of the pool *)

PartRoles(p) ==
    IF p % 2 = 1 THEN {"carry", "mid", "offlane"} ELSE {"soft_support", "hard_support"}

InitialMmr(p) == 2000 + 200 * ((p - 1) % 3)

\* Player(id, initial_mmr) followed by an assignment of preferred_roles
NewPlayer(p, allRoles) ==
    [mmr |-> InitialMmr(p),
     preferred_roles |-> IF allRoles THEN Roles ELSE PartRoles(p)]

\* The calculators evaluate_match_quality calls and the repository does not define
EnvChoices ==
    {[role_synergy |-> 50, skill_distribution |-> 50, communication |-> 50, hero_synergy |-> 50],
     [role_synergy |-> 100, skill_distribution |-> 40, communication |-> 30, hero_synergy |-> 60]}

----------------------------------------------------------------------------
(* MatchMaker.is_valid_team_composition *)

required_roles == {"carry", "mid", "offlane", "soft_support", "hard_support"}

\* the loop  for player in team: available_roles.update(player.preferred_roles)
RECURSIVE available_roles(_)
available_roles(teamRoles) ==
    IF teamRoles = <<>> THEN {}
    ELSE Head(teamRoles) \cup available_roles(Tail(teamRoles))

is_valid_NoLengthCheck(teamRoles, team_size) ==
    required_roles \subseteq available_roles(teamRoles)

\* teamRoles: the preferred_roles of the team's players, in list order
is_valid_team_composition(teamRoles, team_size) ==
    IF Len(teamRoles) # team_size THEN FALSE
    ELSE required_roles \subseteq available_roles(teamRoles)

RolesOf(team) == [i \in 1..Len(team) |-> players[team[i]].preferred_roles]

----------------------------------------------------------------------------
(* MatchMaker.generate_possible_matches *)

\* itertools.combinations(s, k): the k-subsequences of s in lexicographic index order
RECURSIVE Combinations(_, _)
Combinations(s, k) ==
    IF k = 0 THEN << <<>> >>
    ELSE IF Len(s) < k THEN <<>>
    ELSE LET withHead == Combinations(Tail(s), k - 1)
             without  == Combinations(Tail(s), k)
         IN  [i \in 1..Len(withHead) |-> <<Head(s)>> \o withHead[i]] \o without

\* generate_team_splits(players): the partitions of a combination into two halves,
\* team1 holding the combination's first player
generate_team_splits(ps, team_size) ==
    LET firsts == Combinations(Tail(ps), team_size - 1)
    IN  [i \in 1..Len(firsts) |->
            LET t1 == <<Head(ps)>> \o firsts[i]
            IN  <<t1, SelectSeq(ps, LAMBDA p : p \notin Range(t1))>>]

SplitIsValid_FirstTeamOnly(team_split, team_size) ==
    is_valid_team_composition(RolesOf(team_split[1]), team_size)

\* the condition of lines 73-74
SplitIsValid(team_split, team_size) ==
    /\ is_valid_team_composition(RolesOf(team_split[1]), team_size)
    /\ is_valid_team_composition(RolesOf(team_split[2]), team_size)

Match(team1, team2) == [team1 |-> team1, team2 |-> team2]

\* the inner loop of lines 72-80 over one combination
MatchesOf(ps, team_size) ==
    LET valid == SelectSeq(generate_team_splits(ps, team_size),
                           LAMBDA sp : SplitIsValid(sp, team_size))
    IN  [i \in 1..Len(valid) |-> Match(valid[i][1], valid[i][2])]

generate_possible_matches(pool, team_size) ==
    LET player_combinations == Combinations(pool, team_size * 2)
        RECURSIVE Build(_)
        Build(i) ==
            IF i > Len(player_combinations) THEN <<>>
            ELSE MatchesOf(player_combinations[i], team_size) \o Build(i + 1)
    IN  Build(1)

----------------------------------------------------------------------------
(* MatchMaker.evaluate_match_quality *)

\* calculate_team_mmr(team): the team's average rating
calculate_team_mmr(team) ==
    SumSeq([i \in 1..Len(team) |-> players[team[i]].mmr]) \div Len(team)

calculate_team_balance(match) ==
    LET mmr_difference == Abs(calculate_team_mmr(match.team1) - calculate_team_mmr(match.team2))
    IN  Max2(0, One - (mmr_difference * One) \div config.max_mmr_spread)

calculate_role_synergy(match) == env.role_synergy

calculate_skill_distribution(match) == env.skill_distribution

evaluate_communication_compatibility(match) == env.communication

calculate_hero_synergy(match) == env.hero_synergy

\* lines 94-100: the weighted sum, in thousandths
overall_score(cfg, team_balance, role_synergy, skill_distribution, communication, hero_synergy) ==
    team_balance * cfg.skill_importance +
    role_synergy * cfg.role_importance +
    skill_distribution * cfg.skill_importance +
    communication * cfg.communication_importance +
    hero_synergy * cfg.synergy_importance

evaluate_match_quality(match) ==
    LET team_balance == calculate_team_balance(match)
        role_synergy == calculate_role_synergy(match)
        skill_distribution == calculate_skill_distribution(match)
        communication == evaluate_communication_compatibility(match)
        hero_synergy == calculate_hero_synergy(match)
    IN  [team_balance |-> team_balance,
         role_synergy |-> role_synergy,
         skill_distribution |-> skill_distribution,
         communication_compatibility |-> communication,
         hero_synergy |-> hero_synergy,
         overall_score |-> overall_score(config, team_balance, role_synergy,
                                         skill_distribution, communication, hero_synergy)]

----------------------------------------------------------------------------
(* MatchMaker.find_match *)

Improves_LastWins(score, best_quality) ==
    score >= best_quality /\ score >= quality_threshold

\* the condition of lines 48-49
Improves(score, best_quality) ==
    score > best_quality /\ score >= quality_threshold

\* the loop of lines 46-51; best_match is <<>> (None) or <<match>>
RECURSIVE SelectLoop(_, _, _, _)
SelectLoop(possible_matches, i, best_match, best_quality) ==
    IF i > Len(possible_matches) THEN best_match
    ELSE LET quality == evaluate_match_quality(possible_matches[i])
         IN  IF Improves(quality.overall_score, best_quality)
             THEN SelectLoop(possible_matches, i + 1, <<possible_matches[i]>>, quality.overall_score)
             ELSE SelectLoop(possible_matches, i + 1, best_match, best_quality)

\* lines 37-51: the match find_match selects from the pool, <<>> when None
SelectBest(pool) ==
    IF Len(pool) < config.team_size * 2 THEN <<>>
    ELSE SelectLoop(generate_possible_matches(pool, config.team_size), 1, <<>>, 0)

MatchPlayers(match) == Range(match.team1) \cup Range(match.team2)

\* remove_players_from_pool(match): the pool without the match's players
remove_players_from_pool(pool, match) ==
    SelectSeq(pool, LAMBDA p : p \notin MatchPlayers(match))

FindMatch_NoRemoval ==
    LET best_match == SelectBest(player_pool)
    IN  /\ recent_matches' = recent_matches \o best_match
        /\ result' = best_match
        /\ pre_pool' = player_pool
        /\ called' = TRUE
        /\ UNCHANGED <<config, quality_threshold, players, env, player_pool>>
        /\ UNCHANGED <<thVars, tmVars, qaVars, plVars, rdVars, anVars>>

FindMatch_DropsPoolOnNone ==
    LET best_match == SelectBest(player_pool)
    IN  /\ IF best_match # <<>>
           THEN /\ player_pool' = remove_players_from_pool(player_pool, best_match[1])
                /\ recent_matches' = Append(recent_matches, best_match[1])
           ELSE /\ player_pool' = <<>>
                /\ UNCHANGED recent_matches
        /\ result' = best_match
        /\ pre_pool' = player_pool
        /\ called' = TRUE
        /\ UNCHANGED <<config, quality_threshold, players, env>>
        /\ UNCHANGED <<thVars, tmVars, qaVars, plVars, rdVars, anVars>>

FindMatch ==
    LET best_match == SelectBest(player_pool)
    IN  /\ IF best_match # <<>>
           THEN /\ player_pool' = remove_players_from_pool(player_pool, best_match[1])
                /\ recent_matches' = Append(recent_matches, best_match[1])
           ELSE UNCHANGED <<player_pool, recent_matches>>
        /\ result' = best_match
        /\ pre_pool' = player_pool
        /\ called' = TRUE
        /\ UNCHANGED <<config, quality_threshold, players, env>>
        /\ UNCHANGED <<thVars, tmVars, qaVars, plVars, rdVars, anVars>>

Matched == UNION {MatchPlayers(recent_matches[i]) : i \in 1..Len(recent_matches)}

\* add_to_pool(player), for a player that is not in the pool and was never matched
AddToPoolCall ==
    \E p \in Players :
        /\ p \notin Range(player_pool)
        /\ p \notin Matched
        /\ player_pool' = Append(player_pool, p)
        /\ result' = <<>>
        /\ pre_pool' = <<>>
        /\ called' = FALSE
        /\ UNCHANGED <<config, quality_threshold, recent_matches, players, env>>
        /\ UNCHANGED <<tmVars, qaVars, plVars, rdVars, anVars>>

AddToPool == AddToPoolCall /\ UNCHANGED thVars

----------------------------------------------------------------------------
(* The MatchMaker used from one thread *)

\* MatchMaker(config), the players created and the environment chosen
InitMatchMakerWith(configs) ==
    /\ config \in configs
    /\ quality_threshold = InitQualityThreshold
    /\ player_pool = <<>>
    /\ recent_matches = <<>>
    /\ \E b \in [Players -> BOOLEAN] : players = [p \in Players |-> NewPlayer(p, b[p])]
    /\ env \in EnvChoices
    /\ result = <<>>
    /\ pre_pool = <<>>
    /\ called = FALSE

\* one MatchMaker() with the default environment, for the specifications about other classes
InitMatchMakerDefault ==
    /\ config = default_config
    /\ quality_threshold = InitQualityThreshold
    /\ player_pool = <<>>
    /\ recent_matches = <<>>
    /\ players = [p \in Players |-> NewPlayer(p, TRUE)]
    /\ env = CHOOSE e \in EnvChoices : TRUE
    /\ result = <<>>
    /\ pre_pool = <<>>
    /\ called = FALSE

\* ExceptionalPerformanceAnalyzer.default_config: scores in hundredths, max_mmr_gain in
\* hundredths of an MMR point, the duration in seconds
analyzer_default_config ==
    [exceptional_threshold |-> 90, excellent_threshold |-> 80, very_good_threshold |-> 70,
     max_mmr_gain |-> 500, min_game_duration |-> 1500, min_teamfight_participation |-> 60,
     max_consecutive_exceptional |-> 3]

\* the seven sub-metrics calculate_exceptional_metrics computes before game_impact
SubMetrics == <<"combat_score", "farm_efficiency", "map_impact", "objective_control",
                "teamfight_contribution", "vision_control", "utility_score">>

\* ExceptionalPerformanceAnalyzer() before any call
InitExceptional ==
    /\ ex_config = analyzer_default_config
    /\ ex_sub = [f \in Range(SubMetrics) |-> 0]
    /\ ex_bundle = [f \in Range(SubMetrics) \cup {"game_impact"} |-> 0]
    /\ ex_duration = 0
    /\ ex_scores = <<0, 0>>
    /\ ex_tiers = <<>>
    /\ ex_consistent = <<>>
    /\ ex_result = <<>>

\* SafetyChecker() before any call, with a player that has no history
InitSafety ==
    /\ sf_in = [duration |-> 0, performance_score |-> 0, teamfight_ok |-> TRUE,
                tilt_ok |-> TRUE, balance_ok |-> TRUE, recent_ok |-> TRUE,
                unusual |-> FALSE]
    /\ sf_history = <<>>
    /\ sf_susp = <<>>
    /\ sf_out = <<>>

\* before any calculate_mmr_adjustment
InitAdjustment ==
    /\ adj_in = [victory |-> TRUE, performance |-> 50, team_play |-> 0,
                 role_execution |-> 0, behavior_modifier |-> 10]
    /\ adj_out = <<>>

\* before any call of MetricsCalculator or PerformanceAnalyzer
InitPerformance ==
    /\ mc_call = [fn |-> "none"]
    /\ mc_out = <<>>
    /\ pa_in = [role |-> "carry"]
    /\ pa_out = <<>>

InitAnalysis == InitExceptional /\ InitSafety /\ InitAdjustment /\ InitPerformance

InitThreads ==
    /\ pc = [t \in Threads |-> "idle"]
    /\ best = [t \in Threads |-> <<>>]
    /\ returned = [t \in Threads |-> <<>>]

InitTeam == checked_team = <<>> /\ team_valid = <<>>

InitQuality ==
    /\ quality_in = [i \in 1..5 |-> 0]
    /\ qa_overall = -1
    /\ mm_overall = -1

\* Player(id), initial_mmr = 2000
InitPlayer ==
    /\ mmr = DefaultInitialMmr
    /\ role_ratings = [r \in Roles |-> DefaultInitialMmr]
    /\ performance_history = <<>>
    /\ n_added = 0
    /\ n_updates = 0
    /\ last_update = <<>>

InitReader ==
    /\ wpc = "idle"
    /\ rpc = "idle"
    /\ seen_len = 0
    /\ tilt = 0

Init ==
    /\ InitMatchMakerWith(ConfigChoices)
    /\ InitThreads
    /\ InitTeam
    /\ InitQuality
    /\ InitPlayer
    /\ InitReader
    /\ InitAnalysis

InitCustom ==
    /\ InitMatchMakerWith(CustomConfigChoices)
    /\ InitThreads
    /\ InitTeam
    /\ InitQuality
    /\ InitPlayer
    /\ InitReader
    /\ InitAnalysis

Next == AddToPool \/ FindMatch

Spec == Init /\ [][Next]_vars

\* the same MatchMaker constructed with a threshold of the caller's
SpecCustom == InitCustom /\ [][Next]_vars

----------------------------------------------------------------------------
(* MatchMaker.find_match called from two threads.  The method takes no lock, so
   another thread may run between the selection of lines 37-51, which reads
   player_pool once (line 65), and the update of lines 53-57. *)

\* lines 37-51 in thread t
Select(t) ==
    /\ pc[t] = "idle"
    /\ best' = [best EXCEPT ![t] = SelectBest(player_pool)]
    /\ pc' = [pc EXCEPT ![t] = "selected"]
    /\ UNCHANGED <<mmVars, returned, tmVars, qaVars, plVars, rdVars, anVars>>

\* lines 53-57 in thread t
Commit(t) ==
    /\ pc[t] = "selected"
    /\ IF best[t] # <<>>
       THEN /\ player_pool' = remove_players_from_pool(player_pool, best[t][1])
            /\ recent_matches' = Append(recent_matches, best[t][1])
       ELSE UNCHANGED <<player_pool, recent_matches>>
    /\ returned' = [returned EXCEPT ![t] = best[t]]
    /\ pc' = [pc EXCEPT ![t] = "done"]
    /\ UNCHANGED <<config, quality_threshold, players, env, result, pre_pool, called,
                   best, tmVars, qaVars, plVars, rdVars, anVars>>

\* the pool is filled before the threads start
ConcAddToPool ==
    /\ \A t \in Threads : pc[t] = "idle"
    /\ AddToPoolCall
    /\ UNCHANGED thVars

NextConc ==
    \/ ConcAddToPool
    \/ \E t \in Threads : Select(t)
    \/ \E t \in Threads : Commit(t)

SpecConc == Init /\ [][NextConc]_vars

----------------------------------------------------------------------------
(* MatchMaker.is_valid_team_composition on teams of any length *)

\* the preferred_roles a player of the checked team may have
TeamProfiles ==
    {{"carry", "mid"}, {"offlane", "soft_support"}, {"hard_support"}}

\* team.append(player)
TeamAppend ==
    /\ Len(checked_team) < MaxTeamLen
    /\ \E r \in TeamProfiles : checked_team' = Append(checked_team, r)
    /\ team_valid' = <<>>
    /\ UNCHANGED <<mmVars, thVars, qaVars, plVars, rdVars, anVars>>

CheckTeam ==
    /\ team_valid' = <<is_valid_team_composition(checked_team, config.team_size)>>
    /\ UNCHANGED <<checked_team, mmVars, thVars, qaVars, plVars, rdVars, anVars>>

\* MatchMaker() or MatchMaker(config) with another team_size
InitTeamSpec ==
    /\ \E ts \in {2, 5} : config = [default_config EXCEPT !.team_size = ts]
    /\ quality_threshold = InitQualityThreshold
    /\ player_pool = <<>>
    /\ recent_matches = <<>>
    /\ players = [p \in Players |-> NewPlayer(p, TRUE)]
    /\ env = CHOOSE e \in EnvChoices : TRUE
    /\ result = <<>>
    /\ pre_pool = <<>>
    /\ called = FALSE
    /\ InitThreads
    /\ InitTeam
    /\ InitQuality
    /\ InitPlayer
    /\ InitReader
    /\ InitAnalysis

NextTeam == TeamAppend \/ CheckTeam

SpecTeam == InitTeamSpec /\ [][NextTeam]_vars

----------------------------------------------------------------------------
(* The overall quality of a match: QualityAssessment.calculate_overall_quality
   and MatchMaker.evaluate_match_quality *)

\* the sub-scores, each in [0,1]
Levels == {0, 50, 100}

\* quality.py lines 102-108, in hundredths
weights ==
    [role_balance |-> 25, skill_balance |-> 25, hero_synergy |-> 20,
     team_chemistry |-> 15, playstyle_compatibility |-> 15]

MetricKeys == <<"role_balance", "skill_balance", "hero_synergy", "team_chemistry",
                "playstyle_compatibility">>

\* sum(metrics[key] * weights[key] for key in weights), in ten-thousandths
calculate_overall_quality(metrics) ==
    SumSeq([i \in 1..Len(MetricKeys) |-> metrics[MetricKeys[i]] * weights[MetricKeys[i]]])

AssessQuality ==
    /\ qa_overall' = calculate_overall_quality(
                        [k \in Range(MetricKeys) |->
                            quality_in[CHOOSE i \in 1..Len(MetricKeys) : MetricKeys[i] = k]])
    /\ UNCHANGED <<quality_in, mm_overall, mmVars, thVars, tmVars, plVars, rdVars, anVars>>

\* evaluate_match_quality with team_balance, role_synergy, skill_distribution,
\* communication and hero_synergy being quality_in[1..5]
EvaluateQuality ==
    /\ mm_overall' = overall_score(config, quality_in[1], quality_in[2], quality_in[3],
                                   quality_in[4], quality_in[5])
    /\ UNCHANGED <<quality_in, qa_overall, mmVars, thVars, tmVars, plVars, rdVars, anVars>>

InitQualitySpec ==
    /\ InitMatchMakerDefault
    /\ InitThreads
    /\ InitTeam
    /\ quality_in \in [1..5 -> Levels]
    /\ qa_overall = -1
    /\ mm_overall = -1
    /\ InitPlayer
    /\ InitReader
    /\ InitAnalysis

NextQuality == AssessQuality \/ EvaluateQuality

SpecQuality == InitQualitySpec /\ [][NextQuality]_vars

----------------------------------------------------------------------------
(* Player *)

RECURSIVE SeqMax(_)
SeqMax(s) == IF Len(s) = 1 THEN s[1] ELSE Max2(Head(s), SeqMax(Tail(s)))

RoleOrder == <<"carry", "mid", "offlane", "soft_support", "hard_support">>

\* max(self.role_ratings.values())
MaxRating(ratings) == SeqMax([i \in 1..Len(RoleOrder) |-> ratings[RoleOrder[i]]])

\* the changes update_mmr is called with
Changes == {-100, 50}

UpdateMmr_MmrOfUpdatedRole ==
    /\ n_updates < MaxUpdates
    /\ \E change \in Changes, role \in Roles :
          LET new_ratings == [role_ratings EXCEPT ![role] = @ + change]
          IN  /\ role_ratings' = new_ratings
              /\ mmr' = new_ratings[role]
              /\ last_update' = <<[role |-> role, change |-> change, before |-> role_ratings]>>
    /\ n_updates' = n_updates + 1
    /\ UNCHANGED <<performance_history, n_added, mmVars, thVars, tmVars, qaVars, rdVars, anVars>>

\* Player.update_mmr(change, role)
UpdateMmr ==
    /\ n_updates < MaxUpdates
    /\ \E change \in Changes, role \in Roles :
          LET new_ratings == [role_ratings EXCEPT ![role] = @ + change]
          IN  /\ role_ratings' = new_ratings
              /\ mmr' = MaxRating(new_ratings)
              /\ last_update' = <<[role |-> role, change |-> change, before |-> role_ratings]>>
    /\ n_updates' = n_updates + 1
    /\ UNCHANGED <<performance_history, n_added, mmVars, thVars, tmVars, qaVars, rdVars, anVars>>

\* the n-th match summary handed to add_match_performance
MatchData(n) == [id |-> n, victory |-> (n % 3 # 0)]

\* len(self.performance_history) > 20
HistoryLimit == 20

PopFirst_PopsLast(history) == SubSeq(history, 1, Len(history) - 1)

\* list.pop(0)
PopFirst(history) == Tail(history)

\* lines 49-50
Evict(history) ==
    IF Len(history) > HistoryLimit THEN PopFirst(history) ELSE history

\* Player.add_match_performance(match_data), with no other thread running
AddMatchPerformance ==
    /\ n_added < MaxAdds
    /\ wpc = "idle"
    /\ performance_history' = Evict(Append(performance_history, MatchData(n_added + 1)))
    /\ n_added' = n_added + 1
    /\ UNCHANGED <<mmr, role_ratings, n_updates, last_update,
                   mmVars, thVars, tmVars, qaVars, rdVars, anVars>>

NextPlayer == UpdateMmr \/ AddMatchPerformance

\* the Player specifications share one MatchMaker() that is not used
InitPlayerSpec ==
    /\ InitMatchMakerDefault
    /\ InitThreads
    /\ InitTeam
    /\ InitQuality
    /\ InitPlayer
    /\ InitReader
    /\ InitAnalysis

SpecPlayer == InitPlayerSpec /\ [][NextPlayer]_vars

----------------------------------------------------------------------------
(* Player.add_match_performance in one thread and Player.calculate_tilt in
   another.  Neither takes a lock: list.append, len, list.pop and a slice are
   each atomic, the method as a whole is not. *)

\* line 48
WriterAppend ==
    /\ n_added < MaxAdds
    /\ wpc = "idle"
    /\ performance_history' = Append(performance_history, MatchData(n_added + 1))
    /\ n_added' = n_added + 1
    /\ wpc' = "appended"
    /\ UNCHANGED <<mmr, role_ratings, n_updates, last_update, rpc, seen_len, tilt,
                   mmVars, thVars, tmVars, qaVars, anVars>>

\* lines 49-50
WriterEvict ==
    /\ wpc = "appended"
    /\ performance_history' = Evict(performance_history)
    /\ wpc' = "idle"
    /\ UNCHANGED <<mmr, role_ratings, n_added, n_updates, last_update, rpc, seen_len, tilt,
                   mmVars, thVars, tmVars, qaVars, anVars>>

\* self.performance_history[-5:]
LastFive(history) ==
    SubSeq(history, Max2(1, Len(history) - 4), Len(history))

\* min(1.0, recent_losses * 0.2), in tenths
TiltOf(recent) ==
    LET recent_losses == Cardinality({i \in 1..Len(recent) : ~recent[i].victory})
    IN  IF recent_losses * 2 < 10 THEN recent_losses * 2 ELSE 10

\* line 54: if not self.performance_history: return 0.0
ReaderCheck ==
    /\ rpc \in {"idle", "done"}
    /\ seen_len' = Len(performance_history)
    /\ IF performance_history = <<>>
       THEN tilt' = 0 /\ rpc' = "done"
       ELSE tilt' = tilt /\ rpc' = "checked"
    /\ UNCHANGED <<plVars, wpc, mmVars, thVars, tmVars, qaVars, anVars>>

\* lines 57-59: the slice of the history and the value returned
ReaderSlice ==
    /\ rpc = "checked"
    /\ seen_len' = Len(performance_history)
    /\ tilt' = TiltOf(LastFive(performance_history))
    /\ rpc' = "done"
    /\ UNCHANGED <<plVars, wpc, mmVars, thVars, tmVars, qaVars, anVars>>

NextPlayerConc == WriterAppend \/ WriterEvict \/ ReaderCheck \/ ReaderSlice

SpecPlayerConc == InitPlayerSpec /\ [][NextPlayerConc]_vars

----------------------------------------------------------------------------
(* ExceptionalAnalyzer: the eligibility gate, the tier of a performance and its
   MMR adjustment.  Scores are in hundredths, game_impact in ten-thousandths,
   adjustments in hundredths of an MMR point. *)

Min2(a, b) == IF a <= b THEN a ELSE b

game_impact_weights_HeavyUtility ==
    [combat_score |-> 25, farm_efficiency |-> 15, map_impact |-> 15,
     objective_control |-> 15, teamfight_contribution |-> 15, vision_control |-> 8,
     utility_score |-> 10]

\* the weights of calculate_game_impact, in hundredths
game_impact_weights ==
    [combat_score |-> 25, farm_efficiency |-> 15, map_impact |-> 15,
     objective_control |-> 15, teamfight_contribution |-> 15, vision_control |-> 8,
     utility_score |-> 7]

\* sum of metric * weight over the seven sub-metrics, in ten-thousandths
calculate_game_impact(metrics) ==
    SumSeq([i \in 1..Len(SubMetrics) |->
                metrics[SubMetrics[i]] * game_impact_weights[SubMetrics[i]]])

\* the bundle of the seven sub-metrics and the game_impact computed from them
calculate_exceptional_metrics(sub) ==
    [f \in Range(SubMetrics) \cup {"game_impact"} |->
        IF f = "game_impact" THEN calculate_game_impact(sub) ELSE sub[f]]

\* getattr(metrics, field) >= h hundredths
AtLeast(metrics, field, h) ==
    IF field = "game_impact" THEN metrics[field] >= h * 100 ELSE metrics[field] >= h

ExceptionalFields == {"combat_score", "teamfight_contribution", "game_impact"}

determine_tier_AnyFieldSuffices(cfg, score, metrics) ==
    IF /\ score >= cfg.exceptional_threshold
       /\ \E field \in ExceptionalFields : AtLeast(metrics, field, 85)
    THEN [tier |-> "exceptional",
          adjustment |-> Min2(cfg.max_mmr_gain, (score - 90) * 50)]
    ELSE IF score >= cfg.excellent_threshold
    THEN [tier |-> "excellent", adjustment |-> 0]
    ELSE IF score >= cfg.very_good_threshold
    THEN [tier |-> "very_good",
          adjustment |-> Max2(-1000, (score - 70) * (-50))]
    ELSE [tier |-> "normal", adjustment |-> -2500]

determine_tier_FailedFieldsAreNormal(cfg, score, metrics) ==
    IF score >= cfg.exceptional_threshold
    THEN IF \A field \in ExceptionalFields : AtLeast(metrics, field, 85)
         THEN [tier |-> "exceptional",
               adjustment |-> Min2(cfg.max_mmr_gain, (score - 90) * 50)]
         ELSE [tier |-> "normal", adjustment |-> -2500]
    ELSE IF score >= cfg.excellent_threshold
    THEN [tier |-> "excellent", adjustment |-> 0]
    ELSE IF score >= cfg.very_good_threshold
    THEN [tier |-> "very_good",
          adjustment |-> Max2(-1000, (score - 70) * (-50))]
    ELSE [tier |-> "normal", adjustment |-> -2500]

\* the first test that succeeds decides; 0.9 and 0.7 in the adjustments are literals of
\* the code, not the configured thresholds
determine_tier_and_adjustment(cfg, score, metrics) ==
    IF /\ score >= cfg.exceptional_threshold
       /\ \A field \in ExceptionalFields : AtLeast(metrics, field, 85)
    THEN [tier |-> "exceptional",
          adjustment |-> Min2(cfg.max_mmr_gain, (score - 90) * 50)]
    ELSE IF score >= cfg.excellent_threshold
    THEN [tier |-> "excellent", adjustment |-> 0]
    ELSE IF score >= cfg.very_good_threshold
    THEN [tier |-> "very_good",
          adjustment |-> Max2(-1000, (score - 70) * (-50))]
    ELSE [tier |-> "normal", adjustment |-> -2500]

ConsistencyFields == <<"combat_score", "farm_efficiency", "map_impact", "objective_control",
                       "teamfight_contribution">>

\* n^2 times the sum of the squared deviations of the values from their mean
SumSqDev(list) ==
    LET n == Len(list)
        s == SumSeq(list)
    IN  SumSeq([i \in 1..n |-> (n * list[i] - s) * (n * list[i] - s)])

\* numpy.std(list) > limit: the population standard deviation sqrt(mean((x - mean)^2)),
\* compared without taking the root
std_exceeds(list, limit) ==
    SumSqDev(list) > limit * limit * Len(list) * Len(list) * Len(list)

validate_consistency_SampleStd(metrics) ==
    LET metrics_list == [i \in 1..Len(ConsistencyFields) |-> metrics[ConsistencyFields[i]]]
        n == Len(metrics_list)
    IN  ~(SumSqDev(metrics_list) > 30 * 30 * n * n * (n - 1))

validate_consistency(metrics) ==
    LET metrics_list == [i \in 1..Len(ConsistencyFields) |-> metrics[ConsistencyFields[i]]]
    IN  ~std_exceeds(metrics_list, 30)

validate_performance_NoDurationCheck(cfg, metrics, duration) ==
    /\ ~(metrics.teamfight_contribution < cfg.min_teamfight_participation)
    /\ validate_consistency(metrics)

\* ExceptionalAnalyzer.validate_performance(metrics, match_data)
validate_performance(cfg, metrics, duration) ==
    /\ ~(duration < cfg.min_game_duration)
    /\ ~(metrics.teamfight_contribution < cfg.min_teamfight_participation)
    /\ validate_consistency(metrics)

analyze_OnlyExceptionalIsFlagged(cfg, sub, duration, overall) ==
    LET metrics == calculate_exceptional_metrics(sub)
    IN  IF ~validate_performance(cfg, metrics, duration)
        THEN [is_exceptional |-> FALSE, tier |-> "normal", mmr_adjustment |-> 0,
              detailed_metrics |-> metrics]
        ELSE LET ta == determine_tier_and_adjustment(cfg, overall, metrics)
             IN  [is_exceptional |-> ta.tier = "exceptional", tier |-> ta.tier,
                  mmr_adjustment |-> ta.adjustment, detailed_metrics |-> metrics]

\* sub are the values of the seven calculators, overall the value of
\* calculate_score(metrics)
analyze_exceptional_performance(cfg, sub, duration, overall) ==
    LET metrics == calculate_exceptional_metrics(sub)
    IN  IF ~validate_performance(cfg, metrics, duration)
        THEN [is_exceptional |-> FALSE, tier |-> "normal", mmr_adjustment |-> 0,
              detailed_metrics |-> metrics]
        ELSE LET ta == determine_tier_and_adjustment(cfg, overall, metrics)
             IN  [is_exceptional |-> ta.tier # "normal", tier |-> ta.tier,
                  mmr_adjustment |-> ta.adjustment, detailed_metrics |-> metrics]

\* determine_tier_and_adjustment for each of the two scores, with the same metrics
DetermineTier ==
    /\ ex_tiers = <<>>
    /\ ex_tiers' = [i \in 1..2 |->
                        determine_tier_and_adjustment(ex_config, ex_scores[i], ex_bundle)]
    /\ UNCHANGED <<ex_config, ex_sub, ex_bundle, ex_duration, ex_scores, ex_consistent,
                   ex_result>>
    /\ UNCHANGED <<mmVars, thVars, tmVars, qaVars, plVars, rdVars, sfVars, adjVars,
                   pfVars>>

ValidateConsistency ==
    /\ ex_consistent = <<>>
    /\ ex_consistent' = <<validate_consistency(calculate_exceptional_metrics(ex_sub))>>
    /\ UNCHANGED <<ex_config, ex_sub, ex_bundle, ex_duration, ex_scores, ex_tiers,
                   ex_result>>
    /\ UNCHANGED <<mmVars, thVars, tmVars, qaVars, plVars, rdVars, sfVars, adjVars,
                   pfVars>>

Analyze ==
    /\ ex_result = <<>>
    /\ ex_result' = <<analyze_exceptional_performance(ex_config, ex_sub, ex_duration,
                                                       ex_scores[1])>>
    /\ UNCHANGED <<ex_config, ex_sub, ex_bundle, ex_duration, ex_scores, ex_tiers,
                   ex_consistent>>
    /\ UNCHANGED <<mmVars, thVars, tmVars, qaVars, plVars, rdVars, sfVars, adjVars,
                   pfVars>>

\* configurations with ascending thresholds: the default one, a lower very_good
\* threshold, a lower exceptional threshold, a smaller max_mmr_gain
TierConfigs ==
    {analyzer_default_config,
     [analyzer_default_config EXCEPT !.very_good_threshold = 60],
     [analyzer_default_config EXCEPT !.exceptional_threshold = 85],
     [analyzer_default_config EXCEPT !.max_mmr_gain = 200]}

TierScores == {60, 65, 70, 75, 80, 85, 87, 90, 94, 100}

InitTierSpec ==
    /\ InitMatchMakerDefault
    /\ InitThreads
    /\ InitTeam
    /\ InitQuality
    /\ InitPlayer
    /\ InitReader
    /\ ex_config \in TierConfigs
    /\ ex_sub = [f \in Range(SubMetrics) |-> 0]
    /\ \E c \in {80, 85, 100}, t \in {80, 85, 100}, g \in {8400, 8500, 10000} :
          ex_bundle = [f \in Range(SubMetrics) \cup {"game_impact"} |->
                          CASE f = "combat_score" -> c
                            [] f = "teamfight_contribution" -> t
                            [] f = "game_impact" -> g
                            [] OTHER -> 85]
    /\ ex_duration = 0
    /\ \E a \in TierScores, b \in TierScores : a <= b /\ ex_scores = <<a, b>>
    /\ ex_tiers = <<>>
    /\ ex_consistent = <<>>
    /\ ex_result = <<>>
    /\ InitSafety
    /\ InitAdjustment
    /\ InitPerformance

SpecTier == InitTierSpec /\ [][DetermineTier]_vars

\* the values the sub-metric calculators return
MetricLevels == {25, 70, 100}

InitAnalyzeSpec ==
    /\ InitMatchMakerDefault
    /\ InitThreads
    /\ InitTeam
    /\ InitQuality
    /\ InitPlayer
    /\ InitReader
    /\ ex_config = analyzer_default_config
    /\ ex_sub \in [Range(SubMetrics) -> MetricLevels]
    /\ ex_sub.vision_control # 70 /\ ex_sub.utility_score # 70
    /\ ex_bundle = calculate_exceptional_metrics(ex_sub)
    /\ ex_duration \in {1000, 1500, 2400}
    /\ \E a \in {65, 75, 85, 95} : ex_scores = <<a, a>>
    /\ ex_tiers = <<>>
    /\ ex_consistent = <<>>
    /\ ex_result = <<>>
    /\ InitSafety
    /\ InitAdjustment
    /\ InitPerformance

NextAnalyze == ValidateConsistency \/ Analyze

SpecAnalyze == InitAnalyzeSpec /\ [][NextAnalyze]_vars

----------------------------------------------------------------------------
(* MetricsCalculator: the weight of each metric in a role's overall performance,
   in hundredths *)

role_weights ==
    [carry |-> [farm_efficiency |-> 30, damage_output |-> 30, survival |-> 20,
                objective_focus |-> 20],
     mid |-> [farm_efficiency |-> 25, damage_output |-> 30, map_presence |-> 25,
              objective_focus |-> 20],
     offlane |-> [space_creation |-> 30, survival |-> 25, damage_output |-> 25,
                  objective_focus |-> 20],
     soft_support |-> [map_presence |-> 30, utility |-> 30, teamfight_impact |-> 20,
                       vision_control |-> 20],
     hard_support |-> [vision_control |-> 30, utility |-> 30, survival |-> 20,
                       teamfight_impact |-> 20]]

----------------------------------------------------------------------------
(* SafetyChecker: the gate of six checks and the suspicious-pattern check.  A check's
   outcome is the pair it returns, or the exception it raises. *)

\* SafetyChecker.default_config: the duration in minutes, the scores in hundredths
safety_default_config ==
    [minimum_game_duration |-> 25, required_teamfight_participation |-> 60,
     maximum_tilt_factor |-> 30, minimum_team_gold_difference |-> 5000,
     suspicious_performance_threshold |-> 95]

Passed == [raised |-> FALSE, is_valid |-> TRUE, reason |-> ""]

Failed(reason) == [raised |-> FALSE, is_valid |-> FALSE, reason |-> reason]

Raised(exception) == [raised |-> TRUE, is_valid |-> FALSE, reason |-> exception]

\* check_game_duration(match_data)
check_game_duration(duration) ==
    LET min_duration == safety_default_config.minimum_game_duration * 60
    IN  IF duration < min_duration THEN Failed("Game too short") ELSE Passed

\* the four checks validate_performance calls that are defined nowhere: each passes or
\* fails with its own reason
check_teamfight_participation(ok) ==
    IF ok THEN Passed ELSE Failed("Insufficient teamfight participation")

check_tilt_factor(ok) == IF ok THEN Passed ELSE Failed("Tilt factor too high")

check_game_balance(ok) == IF ok THEN Passed ELSE Failed("Game too unbalanced")

check_recent_performances(ok) ==
    IF ok THEN Passed ELSE Failed("Recent performances inconsistent")

\* history[-n:]
LastN(history, n) ==
    IF Len(history) <= n THEN history
    ELSE SubSeq(history, Len(history) - n + 1, Len(history))

\* lines 72-76: unusual is detect_unusual_patterns(player.stats)
UnusualPatterns(unusual) ==
    IF unusual THEN Failed("Unusual stat patterns detected") ELSE Passed

check_suspicious_IgnoresCurrentScore(history, unusual, performance_score) ==
    LET threshold == safety_default_config.suspicious_performance_threshold
        recent == LastN(history, 5)
    IN  IF \E i \in 1..Len(recent) : "score" \notin DOMAIN recent[i]
        THEN Raised("KeyError")
        ELSE IF \A i \in 1..Len(recent) : recent[i].score > threshold
        THEN Failed("Suspiciously consistent high performance")
        ELSE UnusualPatterns(unusual)

\* check_suspicious_patterns(player, performance_score): the list of recent scores is
\* built before all() looks at it, so an entry without a 'score' raises KeyError; all()
\* of an empty list is True
check_suspicious_patterns(history, unusual, performance_score) ==
    LET threshold == safety_default_config.suspicious_performance_threshold
        recent == LastN(history, 5)
    IN  IF performance_score > threshold
        THEN IF \E i \in 1..Len(recent) : "score" \notin DOMAIN recent[i]
             THEN Raised("KeyError")
             ELSE IF \A i \in 1..Len(recent) : recent[i].score > threshold
             THEN Failed("Suspiciously consistent high performance")
             ELSE UnusualPatterns(unusual)
        ELSE UnusualPatterns(unusual)

\* the for loop of lines 45-50 over a list of outcomes
RECURSIVE FirstFailure(_, _)
FirstFailure(checks, i) ==
    IF i > Len(checks) THEN Passed
    ELSE IF ~checks[i].is_valid THEN checks[i]
    ELSE FirstFailure(checks, i + 1)

\* validate_performance(player, match_data, performance_score): the list of the six
\* outcomes is built first, every check being called, and then searched for a failure
validate_safety(in, history) ==
    LET checks == <<check_game_duration(in.duration),
                    check_teamfight_participation(in.teamfight_ok),
                    check_tilt_factor(in.tilt_ok),
                    check_game_balance(in.balance_ok),
                    check_recent_performances(in.recent_ok),
                    check_suspicious_patterns(history, in.unusual, in.performance_score)>>
    IN  IF \E i \in 1..Len(checks) : checks[i].raised
        THEN checks[CHOOSE i \in 1..Len(checks) :
                        checks[i].raised /\ \A j \in 1..(i - 1) : ~checks[j].raised]
        ELSE FirstFailure(checks, 1)

\* the scores of the matches in a history
HistScores == {95, 96, 97, 98, 99}

\* Player.add_match_performance of a match summary that carries a score
AddScoredPerformance ==
    /\ Len(sf_history) < MaxHist
    /\ sf_susp = <<>>
    /\ sf_out = <<>>
    /\ \E v \in HistScores : sf_history' = Append(sf_history, [score |-> v])
    /\ UNCHANGED <<sf_in, sf_susp, sf_out>>
    /\ UNCHANGED <<mmVars, thVars, tmVars, qaVars, plVars, rdVars, exVars, adjVars,
                   pfVars>>

CheckSuspicious ==
    /\ sf_susp = <<>>
    /\ sf_susp' = <<check_suspicious_patterns(sf_history, sf_in.unusual,
                                              sf_in.performance_score)>>
    /\ UNCHANGED <<sf_in, sf_history, sf_out>>
    /\ UNCHANGED <<mmVars, thVars, tmVars, qaVars, plVars, rdVars, exVars, adjVars,
                   pfVars>>

ValidatePerformance ==
    /\ sf_out = <<>>
    /\ sf_out' = <<validate_safety(sf_in, sf_history)>>
    /\ UNCHANGED <<sf_in, sf_history, sf_susp>>
    /\ UNCHANGED <<mmVars, thVars, tmVars, qaVars, plVars, rdVars, exVars, adjVars,
                   pfVars>>

\* a new player, a long balanced game, a current score at or above the threshold
InitSuspiciousSpec ==
    /\ InitMatchMakerDefault
    /\ InitThreads
    /\ InitTeam
    /\ InitQuality
    /\ InitPlayer
    /\ InitReader
    /\ InitExceptional
    /\ \E ps \in {95, 97}, u \in BOOLEAN :
          sf_in = [duration |-> 2400, performance_score |-> ps, teamfight_ok |-> TRUE,
                   tilt_ok |-> TRUE, balance_ok |-> TRUE, recent_ok |-> TRUE,
                   unusual |-> u]
    /\ sf_history = <<>>
    /\ sf_susp = <<>>
    /\ sf_out = <<>>
    /\ InitAdjustment
    /\ InitPerformance

NextSuspicious == AddScoredPerformance \/ CheckSuspicious

SpecSuspicious == InitSuspiciousSpec /\ [][NextSuspicious]_vars

\* histories of the player handed to validate_performance: none, a match summary
\* without a score (as add_match_performance stores any dict), five high scores, a low
\* score
SafetyHistories ==
    {<<>>,
     <<[victory |-> TRUE]>>,
     [i \in 1..5 |-> [score |-> 97]],
     <<[score |-> 90]>>}

InitSafetySpec ==
    /\ InitMatchMakerDefault
    /\ InitThreads
    /\ InitTeam
    /\ InitQuality
    /\ InitPlayer
    /\ InitReader
    /\ InitExceptional
    /\ sf_in \in [duration : {1000, 1500}, performance_score : {95, 97},
                  teamfight_ok : BOOLEAN, tilt_ok : BOOLEAN, balance_ok : BOOLEAN,
                  recent_ok : BOOLEAN, unusual : BOOLEAN]
    /\ sf_history \in SafetyHistories
    /\ sf_susp = <<>>
    /\ sf_out = <<>>
    /\ InitAdjustment
    /\ InitPerformance

NextSafety == ValidatePerformance \/ CheckSuspicious

SpecSafety == InitSafetySpec /\ [][NextSafety]_vars

----------------------------------------------------------------------------
(* calculate_mmr_adjustment: performance in hundredths, the bonuses and the behavior
   modifier in tenths, the MMR change in hundred-thousandths of a point *)

base_mmr == 25

calculate_mmr_adjustment_NoRoleExecution(in) ==
    LET game_outcome == 80 * (IF in.victory THEN base_mmr ELSE -base_mmr)
        performance_modifier == (20 * (in.performance - 50) * base_mmr) \div 100
    IN  (game_outcome + performance_modifier) * (10 + in.team_play) * 10
            * in.behavior_modifier

\* in are victory and the values of calculate_performance_score,
\* calculate_team_play_bonus, calculate_role_execution, calculate_behavior_modifier
calculate_mmr_adjustment(in) ==
    LET game_outcome == 80 * (IF in.victory THEN base_mmr ELSE -base_mmr)
        performance_modifier == (20 * (in.performance - 50) * base_mmr) \div 100
    IN  (game_outcome + performance_modifier) * (10 + in.team_play)
            * (10 + in.role_execution) * in.behavior_modifier

Adjust ==
    /\ adj_out = <<>>
    /\ adj_out' = <<calculate_mmr_adjustment(adj_in)>>
    /\ UNCHANGED adj_in
    /\ UNCHANGED <<mmVars, thVars, tmVars, qaVars, plVars, rdVars, exVars, sfVars,
                   pfVars>>

InitAdjustSpec ==
    /\ InitMatchMakerDefault
    /\ InitThreads
    /\ InitTeam
    /\ InitQuality
    /\ InitPlayer
    /\ InitReader
    /\ InitExceptional
    /\ InitSafety
    /\ adj_in \in [victory : BOOLEAN, performance : {0, 50, 100}, team_play : {0, 1, 5},
                   role_execution : {0, 1, 5}, behavior_modifier : {-5, 0, 5, 10}]
    /\ adj_out = <<>>
    /\ InitPerformance

SpecAdjust == InitAdjustSpec /\ [][Adjust]_vars

----------------------------------------------------------------------------
(* MetricsCalculator: the sub-score calculators and calculate_overall_performance.
   Ratios given as inputs are in hundredths; a calculator's value is in
   ten-thousandths (Unit), quotients being cut to that precision.  The outcome of a
   call is its value or the ZeroDivisionError it raises. *)

Unit == One * One

Value(v) == [raised |-> FALSE, exception |-> "", value |-> v]

ZeroDivisionError == [raised |-> TRUE, exception |-> "ZeroDivisionError", value |-> 0]

Sgn(a) == IF a < 0 THEN -1 ELSE 1

\* num / den for den # 0, in ten-thousandths
Quot(num, den) == Sgn(num) * Sgn(den) * ((Abs(num) * Unit) \div Abs(den))

\* GameMetrics(): every field defaults to 0
DefaultMetrics ==
    [kills |-> 0, deaths |-> 0, assists |-> 0, last_hits |-> 0, gpm |-> 0,
     hero_damage |-> 0, tower_damage |-> 0, hero_healing |-> 0, stun_duration |-> 0,
     wards_placed |-> 0, wards_destroyed |-> 0, teamfight_participation |-> 0]

\* a game_data dict; for the keys read with .get the value of an absent key is the
\* default of the .get
DefaultGameData ==
    [duration |-> 2400, team_damage |-> 1000, team_fights |-> 10, teleports_used |-> 0,
     lane_participation |-> <<0, 0, 0>>, objective_presence |-> 50,
     enemy_attention_score |-> 50, rotations_forced |-> 0, team_tower_damage |-> 1,
     roshan_participation |-> 0, objective_control |-> 0, teamfight_damage_share |-> 0,
     total_fight_duration |-> 1]

\* calculate_farming_efficiency: role_expectations
farm_expectations ==
    [carry |-> [cs |-> 10, gpm |-> 600], mid |-> [cs |-> 8, gpm |-> 550],
     offlane |-> [cs |-> 6, gpm |-> 450], soft_support |-> [cs |-> 2, gpm |-> 300],
     hard_support |-> [cs |-> 1, gpm |-> 250]]

\* minutes = game_duration / 60, so last_hits / (cs * minutes) is
\* last_hits * 60 / (cs * game_duration)
calculate_farming_efficiency(m, game_duration, role) ==
    LET expected == farm_expectations[role]
    IN  IF expected.cs * game_duration = 0 THEN ZeroDivisionError
        ELSE LET cs_score == Min2(Unit, Quot(m.last_hits * 60, expected.cs * game_duration))
                 gpm_score == Min2(Unit, Quot(m.gpm, expected.gpm))
             IN  Value((cs_score + gpm_score) \div 2)

\* in hundredths
role_damage_expectations ==
    [carry |-> 35, mid |-> 30, offlane |-> 20, soft_support |-> 10, hard_support |-> 5]

calculate_combat_efficiency(m, team_damage, role) ==
    LET damage_score == Min2(Unit, Quot(m.hero_damage * 100,
                                        Max2(1, team_damage) * role_damage_expectations[role]))
        kda_score == Min2(Unit, Quot(m.kills + m.assists, Max2(1, m.deaths) * 4))
    IN  Value((damage_score * 6 + kda_score * 4) \div 10)

calculate_vision_Unclamped(m, game_duration) ==
    IF game_duration = 0 THEN ZeroDivisionError
    ELSE Value(Quot((m.wards_placed * 6 + m.wards_destroyed * 4) * 60,
                    10 * game_duration * 2))

\* ward_score = (wards_placed / minutes) * 0.6 + (wards_destroyed / minutes) * 0.4
calculate_vision_score(m, game_duration) ==
    IF game_duration = 0 THEN ZeroDivisionError
    ELSE Value(Min2(Unit, Quot((m.wards_placed * 6 + m.wards_destroyed * 4) * 60,
                               10 * game_duration * 2)))

calculate_utility_score(m, team_fights) ==
    IF team_fights * 5 = 0 THEN ZeroDivisionError
    ELSE LET stun_score == Min2(Unit, Quot(m.stun_duration, team_fights * 5))
             healing_score == Min2(Unit, Quot(m.hero_healing, 5000))
             teamfight_score == Min2(Unit, m.teamfight_participation * 100)
         IN  Value((stun_score * 4 + healing_score * 3 + teamfight_score * 3) \div 10)

\* deaths per minute, in hundredths
role_death_thresholds ==
    [carry |-> 12, mid |-> 14, offlane |-> 16, soft_support |-> 20, hard_support |-> 25]

calculate_survival_AbsoluteDeviation(m, game_duration, role) ==
    IF game_duration = 0 THEN ZeroDivisionError
    ELSE LET threshold == role_death_thresholds[role]
             survival_score ==
                 Abs(Unit - Quot(m.deaths * 60 * 100, game_duration * threshold))
         IN  Value(Min2(Unit, survival_score))

\* death_rate / threshold is deaths * 60 / (game_duration * threshold); a GameMetrics has
\* no death_impact_score
calculate_survival_score(m, game_duration, role) ==
    IF game_duration = 0 THEN ZeroDivisionError
    ELSE LET threshold == role_death_thresholds[role]
             survival_score ==
                 Max2(0, Unit - Quot(m.deaths * 60 * 100, game_duration * threshold))
         IN  Value(Min2(Unit, survival_score))

calculate_map_presence(m, game_data) ==
    LET tp_score == Min2(Unit, Quot(game_data.teleports_used, 10))
        lane_presence == (SumSeq(game_data.lane_participation) * 100) \div 3
        objective_presence == game_data.objective_presence * 100
    IN  Value((tp_score * 3 + lane_presence * 4 + objective_presence * 3) \div 10)

calculate_space_creation(m, game_data) ==
    LET attention_score == game_data.enemy_attention_score * 100
        tower_pressure_100 == Quot(m.tower_damage, Max2(1, game_data.duration) * 100)
        rotations_forced == Quot(game_data.rotations_forced, 10)
        space_score == (attention_score * 4 + Min2(Unit, tower_pressure_100) * 3
                           + Min2(Unit, rotations_forced) * 3) \div 10
    IN  Value(Min2(Unit, space_score))

\* the sum is returned as it is
calculate_objective_focus(m, game_data) ==
    LET tower_contribution == Quot(m.tower_damage, Max2(1, game_data.team_tower_damage))
        roshan_score == game_data.roshan_participation * 100
        objective_control == game_data.objective_control * 100
    IN  Value((tower_contribution * 5 + roshan_score * 3 + objective_control * 2) \div 10)

\* the sum is returned as it is
calculate_teamfight_impact(m, game_data) ==
    LET participation == m.teamfight_participation * 100
        fight_impact == game_data.teamfight_damage_share * 100
        utility_impact == Quot(m.stun_duration, Max2(1, game_data.total_fight_duration))
    IN  Value((participation * 4 + fight_impact * 3 + utility_impact * 3) \div 10)

\* the dict base_scores of calculate_overall_performance, as outcomes
base_scores(m, game_data, role) ==
    [farm_efficiency |-> calculate_farming_efficiency(m, game_data.duration, role),
     damage_output |-> calculate_combat_efficiency(m, game_data.team_damage, role),
     vision_control |-> calculate_vision_score(m, game_data.duration),
     utility |-> calculate_utility_score(m, game_data.team_fights),
     survival |-> calculate_survival_score(m, game_data.duration, role),
     map_presence |-> calculate_map_presence(m, game_data),
     space_creation |-> calculate_space_creation(m, game_data),
     objective_focus |-> calculate_objective_focus(m, game_data),
     teamfight_impact |-> calculate_teamfight_impact(m, game_data)]

RECURSIVE SumWeighted(_, _)
SumWeighted(weighted, keys) ==
    IF keys = {} THEN 0
    ELSE LET k == CHOOSE x \in keys : TRUE
         IN  weighted[k] + SumWeighted(weighted, keys \ {k})

\* overall_score and weighted_scores are in millionths (score times weight in hundredths)
calculate_overall_performance(m, game_data, role) ==
    LET base == base_scores(m, game_data, role)
        role_w == role_weights[role]
    IN  IF \E n \in DOMAIN base : base[n].raised THEN ZeroDivisionError
        ELSE LET weighted == [metric \in DOMAIN role_w |-> base[metric].value * role_w[metric]]
             IN  [raised |-> FALSE, exception |-> "",
                  detailed_scores |-> [n \in DOMAIN base |-> base[n].value],
                  overall_score |-> SumWeighted(weighted, DOMAIN role_w),
                  weighted_scores |-> weighted]

\* the method mc_call names, applied to its arguments
Apply(call) ==
    CASE call.fn = "calculate_farming_efficiency" ->
             calculate_farming_efficiency(call.m, call.game_data.duration, call.role)
      [] call.fn = "calculate_combat_efficiency" ->
             calculate_combat_efficiency(call.m, call.game_data.team_damage, call.role)
      [] call.fn = "calculate_vision_score" ->
             calculate_vision_score(call.m, call.game_data.duration)
      [] call.fn = "calculate_utility_score" ->
             calculate_utility_score(call.m, call.game_data.team_fights)
      [] call.fn = "calculate_survival_score" ->
             calculate_survival_score(call.m, call.game_data.duration, call.role)
      [] call.fn = "calculate_map_presence" -> calculate_map_presence(call.m, call.game_data)
      [] call.fn = "calculate_space_creation" ->
             calculate_space_creation(call.m, call.game_data)
      [] call.fn = "calculate_objective_focus" ->
             calculate_objective_focus(call.m, call.game_data)
      [] call.fn = "calculate_teamfight_impact" ->
             calculate_teamfight_impact(call.m, call.game_data)
      [] call.fn = "calculate_overall_performance" ->
             calculate_overall_performance(call.m, call.game_data, call.role)

Calculate ==
    /\ mc_out = <<>>
    /\ mc_out' = <<Apply(mc_call)>>
    /\ UNCHANGED <<mc_call, pa_in, pa_out>>
    /\ UNCHANGED <<mmVars, thVars, tmVars, qaVars, plVars, rdVars, exVars, sfVars, adjVars>>

Call(fn, role, m, game_data) == [fn |-> fn, role |-> role, m |-> m, game_data |-> game_data]

\* game durations in seconds: negative and zero (out of the domain), 10 and 40 minutes
Durations == {-600, 0, 600, 2400}

Ratios == {0, 50, 100}

FarmingCalls ==
    {Call("calculate_farming_efficiency", role,
          [DefaultMetrics EXCEPT !.last_hits = lh, !.gpm = g],
          [DefaultGameData EXCEPT !.duration = d]) :
        role \in Roles, lh \in {0, 100, 400, 600}, g \in {0, 400, 800}, d \in Durations}

CombatCalls ==
    {Call("calculate_combat_efficiency", x[1],
          [DefaultMetrics EXCEPT !.hero_damage = x[2], !.kills = x[3], !.assists = x[4],
                                 !.deaths = x[5]],
          [DefaultGameData EXCEPT !.team_damage = x[6]]) :
        x \in Roles \X {0, 50, 250, 1000} \X {0, 15} \X {0, 20} \X {0, 2, 10} \X {0, 1000}}

VisionCalls ==
    {Call("calculate_vision_score", "hard_support",
          [DefaultMetrics EXCEPT !.wards_placed = wp, !.wards_destroyed = wd],
          [DefaultGameData EXCEPT !.duration = d]) :
        wp \in {0, 15, 200}, wd \in {0, 8}, d \in Durations}

UtilityCalls ==
    {Call("calculate_utility_score", "hard_support",
          [DefaultMetrics EXCEPT !.stun_duration = x[1], !.hero_healing = x[2],
                                 !.teamfight_participation = x[3]],
          [DefaultGameData EXCEPT !.team_fights = x[4]]) :
        x \in {0, 30, 200} \X {0, 1500, 8000} \X Ratios \X {0, 10}}

SurvivalCalls ==
    {Call("calculate_survival_score", role, [DefaultMetrics EXCEPT !.deaths = dt],
          [DefaultGameData EXCEPT !.duration = d]) :
        role \in Roles, dt \in {0, 2, 5, 10}, d \in Durations}

MapPresenceCalls ==
    {Call("calculate_map_presence", "mid", DefaultMetrics,
          [DefaultGameData EXCEPT !.teleports_used = tp, !.lane_participation = lanes,
                                  !.objective_presence = op]) :
        tp \in {0, 5, 20}, lanes \in [1..3 -> Ratios], op \in Ratios}

SpaceCreationCalls ==
    {Call("calculate_space_creation", "offlane", [DefaultMetrics EXCEPT !.tower_damage = x[1]],
          [DefaultGameData EXCEPT !.enemy_attention_score = x[2], !.rotations_forced = x[3],
                                  !.duration = x[4]]) :
        x \in {0, 5000} \X Ratios \X {0, 5, 20} \X {0, 600, 2400}}

\* team_tower_damage 1 and total_fight_duration 1 are also what a game_data without
\* these keys gives
ObjectiveFocusCalls ==
    {Call("calculate_objective_focus", "carry", [DefaultMetrics EXCEPT !.tower_damage = x[1]],
          [DefaultGameData EXCEPT !.team_tower_damage = x[2], !.roshan_participation = x[3],
                                  !.objective_control = x[4]]) :
        x \in {0, 1000, 5000} \X {0, 1, 5000, 20000} \X {0, 100} \X {0, 100}}

TeamfightImpactCalls ==
    {Call("calculate_teamfight_impact", "soft_support",
          [DefaultMetrics EXCEPT !.teamfight_participation = x[1], !.stun_duration = x[2]],
          [DefaultGameData EXCEPT !.teamfight_damage_share = x[3],
                                  !.total_fight_duration = x[4]]) :
        x \in Ratios \X {0, 30, 100} \X {0, 100} \X {0, 1, 60, 300}}

\* the metrics of a strong game, with and without tower damage and stuns, on a
\* game_data with or without the team's totals
OverallCalls ==
    {Call("calculate_overall_performance", x[1],
          [kills |-> 10, deaths |-> 3, assists |-> 15, last_hits |-> x[2], gpm |-> 650,
           hero_damage |-> 250, tower_damage |-> x[3], hero_healing |-> 1500,
           stun_duration |-> x[4], wards_placed |-> 15, wards_destroyed |-> 5,
           teamfight_participation |-> 80],
          [DefaultGameData EXCEPT !.team_tower_damage = x[5],
                                  !.total_fight_duration = x[6],
                                  !.lane_participation = <<50, 50, 50>>]) :
        x \in Roles \X {0, 300} \X {0, 5000} \X {0, 100} \X {1, 20000} \X {1, 300}}

MetricsCalls ==
    FarmingCalls \cup CombatCalls \cup VisionCalls \cup UtilityCalls \cup SurvivalCalls
        \cup MapPresenceCalls \cup SpaceCreationCalls \cup ObjectiveFocusCalls
        \cup TeamfightImpactCalls \cup OverallCalls

InitMetricsSpec ==
    /\ InitMatchMakerDefault
    /\ InitThreads
    /\ InitTeam
    /\ InitQuality
    /\ InitPlayer
    /\ InitReader
    /\ InitExceptional
    /\ InitSafety
    /\ InitAdjustment
    /\ mc_call \in MetricsCalls
    /\ mc_out = <<>>
    /\ pa_in = [role |-> "carry"]
    /\ pa_out = <<>>

SpecMetrics == InitMetricsSpec /\ [][Calculate]_vars

----------------------------------------------------------------------------
(* PerformanceAnalyzer.analyze_performance, for a positive duration and positive team
   totals.  Base metrics are in ten-thousandths, adjusted metrics in millionths (the
   state multiplier and the role modifier are in tenths), impact scores and the overall
   score in ten-thousandths. *)

\* self.role_expectations, every value in hundredths
role_expectations ==
    [carry |->
        [early_game |-> [gpm |-> 50000, xpm |-> 60000, lh |-> 5000],
         mid_game |-> [gpm |-> 65000, xpm |-> 75000, lh |-> 16000],
         late_game |-> [gpm |-> 80000, xpm |-> 85000, lh |-> 30000]],
     mid |->
        [early_game |-> [gpm |-> 45000, xpm |-> 55000, rotations |-> 100],
         mid_game |-> [gpm |-> 60000, xpm |-> 70000, rotations |-> 300],
         late_game |-> [gpm |-> 70000, xpm |-> 80000, impact |-> 70]],
     offlane |->
        [early_game |-> [gpm |-> 40000, xpm |-> 50000, space |-> 60],
         mid_game |-> [gpm |-> 50000, xpm |-> 60000, space |-> 70],
         late_game |-> [gpm |-> 60000, xpm |-> 70000, impact |-> 60]],
     soft_support |->
        [early_game |-> [impact |-> 60, rotations |-> 200],
         mid_game |-> [impact |-> 70, vision |-> 70],
         late_game |-> [impact |-> 70, saves |-> 60]],
     hard_support |->
        [early_game |-> [vision |-> 70, harass |-> 60],
         mid_game |-> [vision |-> 80, saves |-> 60],
         late_game |-> [vision |-> 80, positioning |-> 70]]]

\* game_time is in minutes
determine_game_phase(game_time) ==
    IF game_time < 15 THEN "early_game"
    ELSE IF game_time < 30 THEN "mid_game"
    ELSE "late_game"

\* PerformanceAnalyzer.calculate_vision_score: the stats have no vision_uptime, so 0.5
analyzer_vision_score(stats, match_data) ==
    Min2(Unit, Quot((stats.wards_placed * 4 + stats.wards_destroyed * 3) * 60,
                    10 * match_data.duration) + 1500)

\* objective_participation and roshan_participation are absent from the stats: 0.5, 0.0
calculate_objective_score(stats, match_data) ==
    Min2(Unit, (Quot(stats.building_damage, match_data.team_building_damage) * 4) \div 10
                   + 2000)

calculate_base_metrics(stats, match_data) ==
    [kda |-> Quot(stats.kills + stats.assists, Max2(1, stats.deaths)),
     cs_per_min |-> Quot(stats.last_hits * 60, match_data.duration),
     damage_share |-> Quot(stats.damage_dealt, match_data.team_total_damage),
     vision_score |-> analyzer_vision_score(stats, match_data),
     objective_score |-> calculate_objective_score(stats, match_data)]

\* in tenths
state_multiplier == [winning |-> 9, losing |-> 12, even |-> 10]

\* in tenths
role_modifiers ==
    [carry |-> [kda |-> 10, cs_per_min |-> 12, damage_share |-> 11, vision_score |-> 8,
                objective_score |-> 11],
     mid |-> [kda |-> 11, cs_per_min |-> 10, damage_share |-> 11, vision_score |-> 9,
              objective_score |-> 10],
     offlane |-> [kda |-> 9, cs_per_min |-> 8, damage_share |-> 10, vision_score |-> 10,
                  objective_score |-> 12],
     soft_support |-> [kda |-> 8, cs_per_min |-> 6, damage_share |-> 8, vision_score |-> 12,
                       objective_score |-> 9],
     hard_support |-> [kda |-> 7, cs_per_min |-> 5, damage_share |-> 7, vision_score |-> 13,
                       objective_score |-> 8]]

\* role_modifiers.get(role, {}).get(metric, 1.0)
get_role_state_modifier(role, metric) ==
    IF role \in DOMAIN role_modifiers /\ metric \in DOMAIN role_modifiers[role]
    THEN role_modifiers[role][metric]
    ELSE 10

adjust_IgnoresRoleModifier(metrics, game_state, role) ==
    [metric \in DOMAIN metrics |-> metrics[metric] * state_multiplier[game_state] * 10]

adjust_for_game_state(metrics, game_state, role) ==
    [metric \in DOMAIN metrics |->
        metrics[metric] * state_multiplier[game_state] * get_role_state_modifier(role, metric)]

\* only the metrics that are keys of the expectations are scored
calculate_impact_scores(metrics, expectations, game_state) ==
    LET modifier == IF game_state = "losing" THEN 12 ELSE 10
    IN  [metric \in DOMAIN metrics \cap DOMAIN expectations |->
            Min2(Unit, (metrics[metric] * modifier) \div (expectations[metric] * 10))]

\* in hundredths
overall_score_weights ==
    [kda |-> 20, cs_per_min |-> 15, damage_share |-> 25, vision_score |-> 20,
     objective_score |-> 20]

\* weights.get(metric, 0.0)
WeightOf(metric) ==
    IF metric \in DOMAIN overall_score_weights THEN overall_score_weights[metric] ELSE 0

RECURSIVE SumOver(_, _)
SumOver(f, keys) ==
    IF keys = {} THEN 0
    ELSE LET k == CHOOSE x \in keys : TRUE IN f[k] + SumOver(f, keys \ {k})

\* PerformanceAnalyzer.calculate_overall_score(impact_scores)
calculate_overall_score(impact_scores) ==
    LET keys == DOMAIN impact_scores
        total_score == SumOver([k \in keys |-> impact_scores[k] * WeightOf(k)], keys)
        total_weight == SumOver([k \in keys |-> WeightOf(k)], keys)
        final_score == IF total_weight > 0 THEN total_score \div total_weight ELSE 0
    IN  Min2(Unit, final_score)

analyze_performance(in) ==
    LET phase == determine_game_phase(in.game_time)
        role_metrics == role_expectations[in.role][phase]
        base_metrics == calculate_base_metrics(in.stats, in.match_data)
        adjusted_metrics == adjust_for_game_state(base_metrics, in.game_state, in.role)
        impact_scores == calculate_impact_scores(adjusted_metrics, role_metrics,
                                                 in.game_state)
    IN  [base_metrics |-> base_metrics,
         adjusted_metrics |-> adjusted_metrics,
         impact_scores |-> impact_scores,
         overall_score |-> calculate_overall_score(impact_scores)]

AnalyzePerformance ==
    /\ pa_out = <<>>
    /\ pa_out' = <<analyze_performance(pa_in)>>
    /\ UNCHANGED <<mc_call, mc_out, pa_in>>
    /\ UNCHANGED <<mmVars, thVars, tmVars, qaVars, plVars, rdVars, exVars, sfVars, adjVars>>

\* kills=15, deaths=2, assists=20, last_hits=400, damage_dealt=45000
StrongStats ==
    [kills |-> 15, deaths |-> 2, assists |-> 20, last_hits |-> 400,
     damage_dealt |-> 45000, wards_placed |-> 0, wards_destroyed |-> 0,
     building_damage |-> 0]

\* a strong game, a support's game, a game without any contribution
StatsChoices ==
    {StrongStats,
     [kills |-> 2, deaths |-> 5, assists |-> 25, last_hits |-> 50, damage_dealt |-> 12000,
      wards_placed |-> 20, wards_destroyed |-> 8, building_damage |-> 500],
     [kills |-> 0, deaths |-> 8, assists |-> 0, last_hits |-> 0, damage_dealt |-> 0,
      wards_placed |-> 0, wards_destroyed |-> 0, building_damage |-> 0]}

\* a match of 2400 s with team total damage 100000
MatchDataChoice ==
    [duration |-> 2400, team_total_damage |-> 100000, team_building_damage |-> 10000]

InitPerformanceSpec ==
    /\ InitMatchMakerDefault
    /\ InitThreads
    /\ InitTeam
    /\ InitQuality
    /\ InitPlayer
    /\ InitReader
    /\ InitExceptional
    /\ InitSafety
    /\ InitAdjustment
    /\ mc_call = [fn |-> "none"]
    /\ mc_out = <<>>
    /\ \E role \in Roles, stats \in StatsChoices, gs \in {"winning", "losing", "even"},
          gt \in {10, 20, 35} :
          pa_in = [role |-> role, stats |-> stats, match_data |-> MatchDataChoice,
                   game_state |-> gs, game_time |-> gt]
    /\ pa_out = <<>>

SpecPerformance == InitPerformanceSpec /\ [][AnalyzePerformance]_vars

----------------------------------------------------------------------------
(* Properties of find_match *)

Candidates(pool) == generate_possible_matches(pool, config.team_size)

Score(match) == evaluate_match_quality(match).overall_score

\* every role is preferred by some player of the team
Covers(team) == \A r \in Roles : \E p \in Range(team) : r \in players[p].preferred_roles

\* C1: find_match returns the first-enumerated candidate among those of maximal
\* overall score when that score is at least 0.8 (800 thousandths), and None when
\* no candidate reaches 0.8.
C1_FirstBestAboveThreshold ==
    called =>
        LET c == Candidates(pre_pool)
            score == [i \in 1..Len(c) |-> Score(c[i])]
            above == {i \in 1..Len(c) : score[i] >= 800}
        IN  IF above = {} THEN result = <<>>
            ELSE \E i \in above :
                    /\ \A j \in 1..Len(c) : score[j] <= score[i]
                    /\ \A j \in 1..(i - 1) : score[j] < score[i]
                    /\ result = <<c[i]>>

\* a call that returned a match although a later candidate ties with it at the
\* maximum and another candidate scores lower
C1_Witness ==
    /\ called
    /\ result # <<>>
    /\ LET c == Candidates(pre_pool)
       IN  \E i, j, k \in 1..Len(c) :
              /\ i < j
              /\ result = <<c[i]>>
              /\ Score(c[j]) = Score(c[i])
              /\ Score(c[k]) < Score(c[i])

\* C2: the players of every returned match are out of player_pool and the match
\* is in recent_matches; player_pool is disjoint from the players of
\* recent_matches and no player is in two matches of recent_matches.
C2_MatchedPlayersLeaveThePool ==
    /\ Range(player_pool) \cap Matched = {}
    /\ \A i, j \in 1..Len(recent_matches) :
          i # j => MatchPlayers(recent_matches[i]) \cap MatchPlayers(recent_matches[j]) = {}
    /\ result # <<>> =>
          /\ recent_matches # <<>>
          /\ recent_matches[Len(recent_matches)] = result[1]
          /\ MatchPlayers(result[1]) \cap Range(player_pool) = {}
          /\ Range(player_pool) = Range(pre_pool) \ MatchPlayers(result[1])

\* two matches were returned one after the other
C2_Witness == Len(recent_matches) >= 2 /\ result # <<>>

\* C4: find_match accepts a candidate exactly when its overall score is at least
\* the min_quality_threshold of the MatchMaker's config.
C4_ConfiguredThresholdApplies ==
    called =>
        LET c == Candidates(pre_pool)
        IN  (result # <<>>) <=> (\E i \in 1..Len(c) : Score(c[i]) >= config.min_quality_threshold)

WellFormed(match, pool) ==
    /\ Range(match.team1) \subseteq Range(pool)
    /\ Range(match.team2) \subseteq Range(pool)
    /\ Range(match.team1) \cap Range(match.team2) = {}
    /\ Len(match.team1) = config.team_size
    /\ Len(match.team2) = config.team_size
    /\ Cardinality(Range(match.team1)) = config.team_size
    /\ Cardinality(Range(match.team2)) = config.team_size
    /\ Covers(match.team1)
    /\ Covers(match.team2)

\* C6: every candidate of generate_possible_matches, and every match find_match
\* returns, is two disjoint teams of team_size players of the pool, each covering
\* the five roles.
C6_CandidatesAreValidSplits ==
    /\ LET c == Candidates(player_pool)
       IN  \A i \in 1..Len(c) : WellFormed(c[i], player_pool)
    /\ result # <<>> => WellFormed(result[1], pre_pool)

\* a pool with a candidate, where a split of some combination was rejected for a
\* team that does not cover the roles
C6_Witness ==
    /\ Len(Candidates(player_pool)) >= 1
    /\ \E i \in 1..Len(Combinations(player_pool, config.team_size * 2)) :
          LET ps == Combinations(player_pool, config.team_size * 2)[i]
          IN  \E k \in 1..Len(generate_team_splits(ps, config.team_size)) :
                 LET sp == generate_team_splits(ps, config.team_size)[k]
                 IN  ~Covers(sp[1]) \/ ~Covers(sp[2])

----------------------------------------------------------------------------
(* Properties of concurrent find_match, team validity and overall quality *)

\* C3: when two find_match invocations run concurrently, no player is placed into
\* two returned matches.
C3_NoDoubleBooking ==
    \A t1, t2 \in Threads :
        (t1 # t2 /\ returned[t1] # <<>> /\ returned[t2] # <<>>) =>
            MatchPlayers(returned[t1][1]) \cap MatchPlayers(returned[t2][1]) = {}

\* C5: is_valid_team_composition(team) is true exactly when the team has team_size
\* players and every one of the five roles is preferred by one of them.
C5_ValidIffSizeAndCoverage ==
    team_valid # <<>> =>
        (team_valid[1] <=>
            /\ Len(checked_team) = config.team_size
            /\ \A r \in Roles : \E i \in 1..Len(checked_team) : r \in checked_team[i])

\* a team of five whose combined preferred roles lack only hard_support, rejected
C5_Witness ==
    /\ config.team_size = 5
    /\ Len(checked_team) = 5
    /\ UNION Range(checked_team) = Roles \ {"hard_support"}
    /\ team_valid = <<FALSE>>

\* C7: with every sub-score in [0,1] the overall score lies in [0,1], for
\* calculate_overall_quality (ten-thousandths) and for evaluate_match_quality
\* (thousandths).
C7_OverallScoreInUnitRange ==
    /\ (\A i \in 1..5 : quality_in[i] \in 0..One) =>
          /\ qa_overall # -1 => qa_overall \in 0..(One * 100)
          /\ mm_overall # -1 => mm_overall \in 0..(One * 10)

----------------------------------------------------------------------------
(* Properties of Player *)

\* C8: performance_history holds at most 20 entries, the most recently added
\* min(n, 20) summaries in insertion order.
C8_HistoryIsLastTwenty ==
    LET n == n_added
        k == IF n < 20 THEN n ELSE 20
    IN  /\ Len(performance_history) <= 20
        /\ Len(performance_history) = k
        /\ \A i \in 1..k : performance_history[i] = MatchData(n - k + i)

\* the history overflowed twice
C8_Witness == n_added >= 22 /\ Len(performance_history) = 20

\* C9: a reader running concurrently with add_match_performance never reads a
\* history of more than 20 entries.
C9_ReaderNeverSeesOverflow == seen_len <= 20

\* C10: mmr is the maximum of the role ratings, and update_mmr(change, role)
\* adds change to the rating of role and leaves the other four as they were.
C10_MmrIsMaxRoleRating ==
    /\ \A r \in Roles : role_ratings[r] <= mmr
    /\ \E r \in Roles : role_ratings[r] = mmr
    /\ last_update # <<>> =>
          LET u == last_update[1]
          IN  /\ role_ratings[u.role] = u.before[u.role] + u.change
              /\ \A r \in Roles \ {u.role} : role_ratings[r] = u.before[r]

\* a negative change to the one role that held the maximum: mmr went down
C10_Witness ==
    /\ last_update # <<>>
    /\ last_update[1].change < 0
    /\ mmr < MaxRating(last_update[1].before)
    /\ mmr > role_ratings[last_update[1].role]

----------------------------------------------------------------------------
(* Properties of ExceptionalAnalyzer *)

TierRank(tier) ==
    CASE tier = "normal" -> 0
      [] tier = "very_good" -> 1
      [] tier = "excellent" -> 2
      [] tier = "exceptional" -> 3

AllThreeHigh ==
    /\ ex_bundle.combat_score >= 85
    /\ ex_bundle.teamfight_contribution >= 85
    /\ ex_bundle.game_impact >= 8500

\* C11: with the same metrics and ascending thresholds, the tier of the higher of two
\* overall scores is never lower than the tier of the lower score.
C11_TierIsMonotoneInScore ==
    ex_tiers # <<>> => TierRank(ex_tiers[1].tier) <= TierRank(ex_tiers[2].tier)

\* a score at the exceptional threshold whose metrics keep it "excellent", beside a lower
\* score that is "excellent" too
C11_Witness ==
    /\ ex_tiers # <<>>
    /\ ex_scores[1] < ex_config.exceptional_threshold
    /\ ex_scores[2] >= ex_config.exceptional_threshold
    /\ ex_tiers[1].tier = "excellent"
    /\ ex_tiers[2].tier = "excellent"

\* C12: the tier is "exceptional" exactly when the overall score reaches the exceptional
\* threshold and combat_score, teamfight_contribution and game_impact are each at least
\* 0.85; a score at or above the threshold with one of the three below 0.85 is "excellent".
C12_ExceptionalNeedsAllThree ==
    ex_tiers # <<>> =>
        \A i \in 1..2 :
            /\ ex_tiers[i].tier = "exceptional"
                   <=> (ex_scores[i] >= ex_config.exceptional_threshold /\ AllThreeHigh)
            /\ (ex_scores[i] >= ex_config.exceptional_threshold /\ ~AllThreeHigh)
                   => ex_tiers[i].tier = "excellent"

\* a score of 0.94 with combat 1.0 and game_impact 1.0 but teamfight 0.80 is "excellent"
C12_Witness ==
    /\ ex_tiers # <<>>
    /\ ex_scores[2] = 94
    /\ ex_bundle.combat_score = 100
    /\ ex_bundle.game_impact = 10000
    /\ ex_bundle.teamfight_contribution = 80
    /\ ex_tiers[2].tier = "excellent"

\* C13: for every score and every configuration with ascending thresholds the adjustment
\* follows the tier: "normal" exactly -25, "very_good" within [-10, 0], "excellent"
\* exactly 0, "exceptional" within [0, max_mmr_gain].
C13_AdjustmentFollowsTierPolicy ==
    ex_tiers # <<>> =>
        \A i \in 1..2 :
            LET r == ex_tiers[i]
            IN  CASE r.tier = "normal" -> r.adjustment = -2500
                  [] r.tier = "very_good" -> r.adjustment >= -1000 /\ r.adjustment <= 0
                  [] r.tier = "excellent" -> r.adjustment = 0
                  [] r.tier = "exceptional" ->
                         r.adjustment >= 0 /\ r.adjustment <= ex_config.max_mmr_gain

\* the population standard deviation of the five consistency scores exceeds 0.30:
\* the variance (5 * sum of squares - square of the sum) / 25 exceeds 900
SpreadExceeds(sub) ==
    LET five == <<sub.combat_score, sub.farm_efficiency, sub.map_impact,
                  sub.objective_control, sub.teamfight_contribution>>
        sq == [i \in 1..5 |-> five[i] * five[i]]
    IN  5 * SumSeq(sq) - SumSeq(five) * SumSeq(five) > 900 * 25

GateFails ==
    \/ ex_duration < 1500
    \/ ex_sub.teamfight_contribution < 60
    \/ SpreadExceeds(ex_sub)

RECURSIVE SumOf(_, _)
SumOf(w, keys) ==
    IF keys = {} THEN 0
    ELSE LET k == CHOOSE x \in keys : TRUE IN w[k] + SumOf(w, keys \ {k})

\* C16: the weights of every role's table sum to 1.0, the seven game_impact weights sum
\* to 1.0 and the five weights of calculate_overall_quality sum to 1.0, so a bundle whose
\* seven sub-metrics are all equal has that value as its game_impact.
C16_WeightsSumToOne ==
    /\ \A role \in DOMAIN role_weights :
           SumOf(role_weights[role], DOMAIN role_weights[role]) = One
    /\ SumOf(game_impact_weights, DOMAIN game_impact_weights) = One
    /\ SumOf(weights, DOMAIN weights) = One
    /\ \A v \in MetricLevels :
           (ex_result # <<>> /\ \A f \in Range(SubMetrics) : ex_sub[f] = v)
               => ex_result[1].detailed_metrics.game_impact = v * One

\* the game_impact of seven sub-metrics of 0.25 each is 0.25
C16_Witness ==
    /\ ex_result # <<>>
    /\ \A f \in Range(SubMetrics) : ex_sub[f] = 25
    /\ ex_result[1].detailed_metrics.game_impact = 2500

----------------------------------------------------------------------------
(* Properties of SafetyChecker *)

\* the outcomes of the first five checks, in the order of the gate
FirstFive ==
    <<check_game_duration(sf_in.duration),
      check_teamfight_participation(sf_in.teamfight_ok),
      check_tilt_factor(sf_in.tilt_ok),
      check_game_balance(sf_in.balance_ok),
      check_recent_performances(sf_in.recent_ok)>>

\* C17: validate_performance returns (True, "") exactly when all six checks pass;
\* otherwise (False, reason) of the first failing check in the gate's order, and once a
\* check has failed the checks after it are not evaluated: they cannot change or break
\* the outcome.
C17_FirstFailureShortCircuits ==
    sf_out # <<>> =>
        IF \E i \in 1..5 : ~FirstFive[i].is_valid
        THEN LET first == CHOOSE i \in 1..5 :
                              ~FirstFive[i].is_valid /\ \A j \in 1..(i - 1) : FirstFive[j].is_valid
             IN  sf_out[1] = Failed(FirstFive[first].reason)
        ELSE sf_out[1] = check_suspicious_patterns(sf_history, sf_in.unusual,
                                                    sf_in.performance_score)

Threshold == safety_default_config.suspicious_performance_threshold

LastFiveAllAbove ==
    /\ Len(sf_history) >= 5
    /\ \A i \in (Len(sf_history) - 4)..Len(sf_history) : sf_history[i].score > Threshold

SuspiciouslyConsistent == Failed("Suspiciously consistent high performance")

\* C18: check_suspicious_patterns rejects with "Suspiciously consistent high
\* performance" whenever the current score is above 0.95 and the five most recent
\* historical scores are all above 0.95; a current score at or below 0.95 is never
\* rejected for that reason.
C18_FiveHighScoresAreRejected ==
    sf_susp # <<>> =>
        /\ (sf_in.performance_score > Threshold /\ LastFiveAllAbove)
               => sf_susp[1] = SuspiciouslyConsistent
        /\ sf_in.performance_score <= Threshold => sf_susp[1] # SuspiciouslyConsistent

\* the history 0.97, 0.98, 0.96, 0.99, 0.97 followed by a score of 0.97 is rejected
C18_Witness ==
    /\ sf_history = <<[score |-> 97], [score |-> 98], [score |-> 96], [score |-> 99],
                      [score |-> 97]>>
    /\ sf_in.performance_score = 97
    /\ sf_susp = <<SuspiciouslyConsistent>>

\* C19: a player whose history is empty, or holds fewer than five scores, or whose last
\* five scores are not all above 0.95, and who posts one score above 0.95 is not rejected
\* as suspiciously consistent.
C19_SingleExcellentGameIsLegitimate ==
    (sf_susp # <<>> /\ sf_in.performance_score > Threshold /\ ~LastFiveAllAbove)
        => sf_susp[1] # SuspiciouslyConsistent

----------------------------------------------------------------------------
(* Properties of calculate_mmr_adjustment *)

\* C20: the MMR change is (0.8 * (+25 on a victory, -25 otherwise)
\* + 0.2 * (performance_score - 0.5) * 25) * (1 + team_play_bonus)
\* * (1 + role_execution_bonus) * behavior_modifier; a victory with performance 0.5, no
\* bonus and behavior_modifier 1.0 gives exactly 20.
C20_MmrAdjustmentFormula ==
    adj_out # <<>> =>
        LET outcome == IF adj_in.victory THEN 2000 ELSE -2000
            performance == 5 * adj_in.performance - 250
        IN  /\ adj_out[1] = (outcome + performance) * (10 + adj_in.team_play)
                                * (10 + adj_in.role_execution) * adj_in.behavior_modifier
            /\ (/\ adj_in.victory /\ adj_in.performance = 50 /\ adj_in.team_play = 0
                /\ adj_in.role_execution = 0 /\ adj_in.behavior_modifier = 10)
                   => adj_out[1] = 20 * 100000

\* a victory with performance 1.0, a role-execution bonus of 0.5 and behavior modifier 0.5
C20_Witness ==
    /\ adj_out # <<>>
    /\ adj_in = [victory |-> TRUE, performance |-> 100, team_play |-> 0,
                 role_execution |-> 5, behavior_modifier |-> 5]
    /\ adj_out[1] = 1687500

\* C21: the behavior modifier never reverses the sign of the adjustment: with
\* non-negative bonuses and any behavior_modifier (values below 0 being clamped to 0),
\* the MMR change is never negative when outcome plus performance term is positive and
\* never positive when that sum is negative.
C21_BehaviorModifierKeepsSign ==
    adj_out # <<>> =>
        LET outcome == IF adj_in.victory THEN 2000 ELSE -2000
            performance == 5 * adj_in.performance - 250
        IN  /\ outcome + performance > 0 => adj_out[1] >= 0
            /\ outcome + performance < 0 => adj_out[1] <= 0

----------------------------------------------------------------------------
(* Further properties of find_match and of analyze_exceptional_performance *)

\* C29: a find_match that returns None, whether the pool holds fewer than
\* 2 * team_size players or no candidate reaches the quality threshold, leaves
\* player_pool and recent_matches unchanged.
C29_NoMatchLeavesStateUnchanged ==
    [][(called' /\ result' = <<>>)
          => (player_pool' = player_pool /\ recent_matches' = recent_matches)]_vars

\* a find_match on a pool large enough for a match returned None and the pool is as it was
C29_Witness ==
    /\ called
    /\ result = <<>>
    /\ Len(pre_pool) >= 2 * config.team_size
    /\ Candidates(pre_pool) # <<>>
    /\ player_pool = pre_pool

\* C30: in the result of analyze_exceptional_performance is_exceptional is true exactly
\* when the tier is not "normal" (true for very_good and excellent too), and a false flag
\* comes with the tier "normal".
C30_FlagIffTierNotNormal ==
    ex_result # <<>> =>
        /\ ex_result[1].is_exceptional <=> ex_result[1].tier # "normal"
        /\ ~ex_result[1].is_exceptional => ex_result[1].tier = "normal"

\* an eligible performance of tier very_good is flagged
C30_Witness ==
    /\ ex_result # <<>>
    /\ ex_result[1].tier = "very_good"
    /\ ex_result[1].is_exceptional

----------------------------------------------------------------------------
(* Properties of MetricsCalculator *)

\* the inputs of the call are in the domain: a positive duration, team damage and
\* teamfight count (the counters and ratios of every call are non-negative)
InDomain ==
    /\ mc_call.game_data.duration > 0
    /\ mc_call.game_data.team_damage > 0
    /\ mc_call.game_data.team_fights > 0

InUnitRange(outcome) == ~outcome.raised /\ outcome.value >= 0 /\ outcome.value <= Unit

\* C22: for every role and all in-domain inputs, calculate_farming_efficiency,
\* calculate_combat_efficiency, calculate_vision_score, calculate_utility_score and
\* calculate_survival_score each return a value in [0,1].
C22_SubScoresInUnitRange ==
    (/\ mc_out # <<>>
     /\ InDomain
     /\ mc_call.fn \in {"calculate_farming_efficiency", "calculate_combat_efficiency",
                        "calculate_vision_score", "calculate_utility_score",
                        "calculate_survival_score"})
        => InUnitRange(mc_out[1])

\* 200 wards in ten minutes: a ward score above 2 per minute is cut to 1.0
C22_Witness ==
    /\ mc_out # <<>>
    /\ mc_call.fn = "calculate_vision_score"
    /\ mc_call.m.wards_placed = 200
    /\ mc_call.game_data.duration = 600
    /\ mc_out[1].value = Unit

\* C23: calculate_map_presence, calculate_space_creation, calculate_objective_focus and
\* calculate_teamfight_impact each return a value in [0,1] for non-negative damage and
\* stun counters, ratios in [0,1] and any non-negative team totals.
C23_BlendsInUnitRange ==
    (/\ mc_out # <<>>
     /\ mc_call.fn \in {"calculate_map_presence", "calculate_space_creation",
                        "calculate_objective_focus", "calculate_teamfight_impact"})
        => InUnitRange(mc_out[1])

\* C24: for every role and all in-domain inputs calculate_overall_performance returns an
\* overall_score in [0,1] that is the sum of the weighted_scores, and weighted_scores
\* holds exactly the role's metrics, each sub-score times its role weight.
C24_OverallIsWeightedSumInUnitRange ==
    (mc_out # <<>> /\ InDomain /\ mc_call.fn = "calculate_overall_performance") =>
        LET r == mc_out[1]
            role_w == role_weights[mc_call.role]
        IN  /\ ~r.raised
            /\ r.overall_score >= 0 /\ r.overall_score <= Unit * One
            /\ DOMAIN r.weighted_scores = DOMAIN role_w
            /\ \A metric \in DOMAIN role_w :
                   r.weighted_scores[metric] = r.detailed_scores[metric] * role_w[metric]
            /\ r.overall_score = SumOf(r.weighted_scores, DOMAIN r.weighted_scores)

\* C25: no calculator divides by zero, and a duration of zero or less never yields a
\* computed farm, vision or survival score: it is reported as a validation error.
C25_NoZeroDivisionNoSilentScore ==
    mc_out # <<>> =>
        /\ mc_out[1].exception # "ZeroDivisionError"
        /\ (/\ mc_call.game_data.duration <= 0
            /\ mc_call.fn \in {"calculate_farming_efficiency", "calculate_vision_score",
                               "calculate_survival_score"})
               => mc_out[1].exception = "ValidationError"

\* C26: for every role and positive duration, more last_hits never lower
\* calculate_farming_efficiency and more deaths never raise calculate_survival_score,
\* all other inputs being the same.
C26_FarmAndSurvivalAreMonotone ==
    (mc_out # <<>> /\ mc_call.game_data.duration > 0) =>
        /\ mc_call.fn = "calculate_farming_efficiency" =>
               \A lh \in {0, 100, 400, 600, 1000} :
                   lh >= mc_call.m.last_hits =>
                       calculate_farming_efficiency([mc_call.m EXCEPT !.last_hits = lh],
                                                    mc_call.game_data.duration,
                                                    mc_call.role).value >= mc_out[1].value
        /\ mc_call.fn = "calculate_survival_score" =>
               \A dt \in {0, 2, 5, 10, 20} :
                   dt >= mc_call.m.deaths =>
                       calculate_survival_score([mc_call.m EXCEPT !.deaths = dt],
                                                mc_call.game_data.duration,
                                                mc_call.role).value <= mc_out[1].value

\* a mid with 2 deaths in 40 minutes scores above 0 and strictly above what 5 deaths give
C26_Witness ==
    /\ mc_out # <<>>
    /\ mc_call.fn = "calculate_survival_score"
    /\ mc_call.role = "mid"
    /\ mc_call.m.deaths = 2
    /\ mc_call.game_data.duration = 2400
    /\ mc_out[1].value > calculate_survival_score([mc_call.m EXCEPT !.deaths = 5], 2400,
                                                  "mid").value
    /\ calculate_survival_score([mc_call.m EXCEPT !.deaths = 5], 2400, "mid").value > 0

----------------------------------------------------------------------------
(* Properties of PerformanceAnalyzer *)

Base(metric) == pa_out[1].base_metrics[metric]

Adjusted(metric) == pa_out[1].adjusted_metrics[metric]

C28_StrongPerformanceScoresHigh ==
    (pa_out # <<>> /\ pa_in.stats = StrongStats) =>
        /\ pa_out[1].overall_score > 7000
        /\ pa_out[1].overall_score <= Unit
        /\ DOMAIN pa_out[1].impact_scores # {}
====
